---- MODULE Spec2Model ----
(***************************************************************************)
(* Model of the robo advisor of jak-fintools: src/advisor.py and its later *)
(* revision src/bin/advisor.py.                                            *)
(*                                                                         *)
(* Arithmetic.  The scripts compute with Python floats.  Every quantity    *)
(* below is the exact rational the float expression stands for, kept as    *)
(* integers over a common denominator:                                     *)
(*   - a percentage value / total * 100 is compared with an integer bound  *)
(*     p by comparing 100 * value with p * total (total > 0).  The double  *)
(*     (p / 100) * 100 equals p for every integer p of 0..100 except 7,    *)
(*     14, 28, 29, 55, 56, 57 and 58, none of which is a bound of the      *)
(*     policies below, so the float comparison and the exact one agree;    *)
(*   - optimum[etf] * optimum_multiplier is tgt[etf] * free / (sum of the  *)
(*     tgt of etfs): total cancels.  When that quotient is a whole number  *)
(*     n the double product may come out just below n and int() then       *)
(*     yields n - 1.  Which of the two happens depends on the operands'    *)
(*     bits, so buy takes the outcome as its argument ulp and the callers  *)
(*     range over the admissible ones (UlpOK);                             *)
(*   - math.sqrt is monotone, so distances are compared by their squares.  *)
(***************************************************************************)
EXTENDS Integers, Sequences, FiniteSets

VARIABLES
    TARGET,      \* the policy table: name -> [min, tgt, max]
    script,      \* which script runs: "advisor" or "bin/advisor"
    args,        \* rounds, invest, min, max of main
    values,      \* the current allocation (buy's first argument)
    i,           \* loop counter of main
    rows,        \* the table rows main accumulates
    out,         \* the messages main printed
    choices,     \* candidates of the round just run
    choice_buy,  \* the subset selected in the round just run
    choice,      \* the allocation selected in the round just run
    etfs,        \* buy's second argument in a direct call
    value,       \* buy's third argument in a direct call
    new_values,  \* what the direct call of buy returned
    score,       \* validity_score / is_valid of new_values
    pc

vars == <<TARGET, script, args, values, i, rows, out, choices, choice_buy,
          choice, etfs, value, new_values, score, pc>>

(***************************************************************************)
(* Bounds of the model.                                                    *)
(***************************************************************************)
MaxHeld == 3        \* direct calls of buy: held values range over 0..MaxHeld
MaxValue == 8       \* direct calls of buy: amounts range over 1..MaxValue
MaxStart == 2       \* main: starting values range over 0..MaxStart
MaxInvest == 2      \* main: invest ranges over 0..MaxInvest
MaxRounds == 2      \* main: rounds ranges over 1..MaxRounds

(***************************************************************************)
(* Instruments and policies.                                               *)
(***************************************************************************)
Names == {"em imi", "world", "world sc"}

\* sorted(TARGET) / sorted(etfs): Python orders the three names like this
SortedNames == <<"em imi", "world", "world sc">>

Position(mn, tg, mx) == [min |-> mn, tgt |-> tg, max |-> mx]

TARGET_advisor ==
    [k \in Names |-> CASE k = "world"    -> Position(70, 77, 100)
                       [] k = "em imi"   -> Position(0, 10, 15)
                       [] k = "world sc" -> Position(0, 13, 15)]

TARGET_bin ==
    [k \in Names |-> CASE k = "world"    -> Position(72, 80, 100)
                       [] k = "em imi"   -> Position(8, 10, 12)
                       [] k = "world sc" -> Position(8, 10, 12)]

\* a policy whose minima sum to more than 100
TARGET_over ==
    [k \in Names |-> CASE k = "world"    -> Position(60, 60, 100)
                       [] k = "em imi"   -> Position(30, 30, 40)
                       [] k = "world sc" -> Position(30, 30, 40)]

\* a policy with room on both sides of every target
TARGET_mid ==
    [k \in Names |-> CASE k = "world"    -> Position(40, 50, 60)
                       [] k = "em imi"   -> Position(20, 30, 35)
                       [] k = "world sc" -> Position(10, 20, 30)]

Policies == {TARGET_advisor, TARGET_bin, TARGET_over, TARGET_mid}

CLUSTERS == {"world", "em imi, world sc"}

(***************************************************************************)
(* Helpers.                                                                *)
(***************************************************************************)
Range(s) == {s[j] : j \in DOMAIN s}

\* sum(f[k] for k in D)
RECURSIVE SumOver(_, _)
SumOver(f, D) ==
    IF D = {} THEN 0
    ELSE LET k == CHOOSE x \in D : TRUE IN f[k] + SumOver(f, D \ {k})

\* sum(allocation.values())
Sum(allocation) == SumOver(allocation, DOMAIN allocation)

\* allocation.get(k, 0)
Get(allocation, k) == IF k \in DOMAIN allocation THEN allocation[k] ELSE 0

\* int(n / d) for d > 0: truncation towards zero
Trunc(n, d) == IF n >= 0 THEN n \div d ELSE -((-n) \div d)

Min2(a, b) == IF a <= b THEN a ELSE b
Max2(a, b) == IF a >= b THEN a ELSE b

\* the greatest common divisor of 100 and n, n > 0
GCD100(n) ==
    LET common == {d \in {1, 2, 4, 5, 10, 20, 25, 50, 100} : n % d = 0}
    IN CHOOSE d \in common : \A e \in common : e <= d

\* a max that keeps the last member of the largest tgt
MaxByTgt_lastOfTies(s) ==
    s[CHOOSE j \in 1..Len(s) :
          /\ \A m \in 1..Len(s) : TARGET[s[m]].tgt <= TARGET[s[j]].tgt
          /\ \A m \in (j + 1)..Len(s) : TARGET[s[m]].tgt < TARGET[s[j]].tgt]

\* max(etfs, key=lambda k: TARGET[k].tgt): the first member of the largest tgt
MaxByTgt(s) ==
    s[CHOOSE j \in 1..Len(s) :
          /\ \A m \in 1..Len(s) : TARGET[s[m]].tgt <= TARGET[s[j]].tgt
          /\ \A m \in 1..(j - 1) : TARGET[s[m]].tgt < TARGET[s[j]].tgt]

\* ", ".join(etfs)
RECURSIVE Join(_)
Join(s) ==
    IF Len(s) = 0 THEN ""
    ELSE IF Len(s) = 1 THEN s[1]
    ELSE s[1] \o ", " \o Join(Tail(s))

\* itertools.combinations(s, r), in the order itertools yields them
RECURSIVE combinations(_, _)
combinations(s, r) ==
    IF r = 0 THEN << <<>> >>
    ELSE IF Len(s) < r THEN <<>>
    ELSE LET with == combinations(Tail(s), r - 1)
             without == combinations(Tail(s), r)
         IN [j \in 1..Len(with) |-> <<s[1]>> \o with[j]] \o without

(***************************************************************************)
(* buy (src/bin/advisor.py:79-109, the same text as src/advisor.py:53-83). *)
(* With D = 100 * (sum of the tgt of etfs) as common denominator:          *)
(*   optimum[etf] * optimum_multiplier = Raw / D                           *)
(*   TARGET[etf].max * total / 100     = Hi / D                            *)
(*   TARGET[etf].min * total / 100     = Lo / D                            *)
(***************************************************************************)
\* the total without the value to be allocated
Total_withoutValue(values_, value_) == Sum(values_)

Total(values_, value_) == Sum(values_) + value_

Fixed(values_, etfs_) == SumOver(values_, DOMAIN values_ \ Range(etfs_))

Free(values_, etfs_, value_) == Total(values_, value_) - Fixed(values_, etfs_)

TgtSum(etfs_) == SumOver([k \in Names |-> TARGET[k].tgt], Range(etfs_))

Denom(etfs_) == 100 * TgtSum(etfs_)

\* buy with the target weight read from the wrong field of the Position
Raw_maxField(values_, etfs_, value_, etf) ==
    100 * TARGET[etf].max * Free(values_, etfs_, value_)

Raw(values_, etfs_, value_, etf) ==
    100 * TARGET[etf].tgt * Free(values_, etfs_, value_)

Hi(values_, etfs_, value_, etf) ==
    TARGET[etf].max * Total(values_, value_) * TgtSum(etfs_)

Lo(values_, etfs_, value_, etf) ==
    TARGET[etf].min * Total(values_, value_) * TgtSum(etfs_)

\* the clamping without its max(val, min) line
Clamped_noMin(values_, etfs_, value_, etf) ==
    Min2(Raw(values_, etfs_, value_, etf), Hi(values_, etfs_, value_, etf))

\* the clamping without its min(val, max) line
Clamped_noMax(values_, etfs_, value_, etf) ==
    Max2(Raw(values_, etfs_, value_, etf), Lo(values_, etfs_, value_, etf))

\* val after the two clamping lines, over Denom
Clamped(values_, etfs_, value_, etf) ==
    Max2(Min2(Raw(values_, etfs_, value_, etf), Hi(values_, etfs_, value_, etf)),
         Lo(values_, etfs_, value_, etf))

\* the float product can fall short of a whole number only when the exact
\* product is one, and int() sees it only when the clamps let it through
UlpOK(values_, etfs_, value_, ulp) ==
    \A k \in Names :
        ulp[k] = 1 =>
            /\ k \in Range(etfs_)
            /\ Lo(values_, etfs_, value_, k) < Raw(values_, etfs_, value_, k)
            /\ Raw(values_, etfs_, value_, k) <= Hi(values_, etfs_, value_, k)
            /\ Raw(values_, etfs_, value_, k) % Denom(etfs_) = 0

\* the float product is exact for every etf
NoUlp == [k \in Names |-> 0]

Ulps(values_, etfs_, value_) ==
    {ulp \in [Names -> {0, 1}] : UlpOK(values_, etfs_, value_, ulp)}

\* val = int(val)
Val(values_, etfs_, value_, ulp, etf) ==
    Trunc(Clamped(values_, etfs_, value_, etf), Denom(etfs_)) - ulp[etf]

\* new_values when the for loop has ended
Assigned(values_, etfs_, value_, ulp) ==
    [k \in DOMAIN values_ \cup Range(etfs_) |->
        IF k \in Range(etfs_) THEN Val(values_, etfs_, value_, ulp, k)
        ELSE values_[k]]

\* free when the for loop has ended
FreeLeft(values_, etfs_, value_, ulp) ==
    Free(values_, etfs_, value_)
    - SumOver([k \in Names |-> Val(values_, etfs_, value_, ulp, k)], Range(etfs_))

\* buy without its "if free:" step
buy_dropRemainder(values_, etfs_, value_, ulp) ==
    Assigned(values_, etfs_, value_, ulp)

\* buy that hands the remainder to the largest position of the whole table
buy_remainderToLargest(values_, etfs_, value_, ulp) ==
    LET new == Assigned(values_, etfs_, value_, ulp)
        free == FreeLeft(values_, etfs_, value_, ulp)
        largest == MaxByTgt(SortedNames)
    IN IF free # 0
       THEN [k \in DOMAIN new \cup {largest} |->
                IF k = largest THEN Get(new, k) + free ELSE new[k]]
       ELSE new

buy(values_, etfs_, value_, ulp) ==
    LET new == Assigned(values_, etfs_, value_, ulp)
        free == FreeLeft(values_, etfs_, value_, ulp)
    IN IF free # 0
       THEN [new EXCEPT ![MaxByTgt(etfs_)] = @ + free]
       ELSE new

(***************************************************************************)
(* Scoring.                                                                *)
(***************************************************************************)
\* percentage > position.max
AboveMax(allocation, name) ==
    100 * allocation[name] > TARGET[name].max * Sum(allocation)

\* percentage < position.min
BelowMin(allocation, name) ==
    100 * allocation[name] < TARGET[name].min * Sum(allocation)

IntOf(b) == IF b THEN 1 ELSE 0

\* validity_score that walks the policy table instead of the allocation
validity_score_configured(allocation) ==
    SumOver([name \in Names |->
                IntOf(100 * Get(allocation, name) > TARGET[name].max * Sum(allocation))
                + IntOf(100 * Get(allocation, name) < TARGET[name].min * Sum(allocation))],
            Names)

validity_score(allocation) ==
    SumOver([name \in Names |->
                IF name \in DOMAIN allocation
                THEN IntOf(AboveMax(allocation, name)) + IntOf(BelowMin(allocation, name))
                ELSE 0],
            DOMAIN allocation)

is_valid(allocation) ==
    \A name \in DOMAIN allocation :
        ~(AboveMax(allocation, name) \/ BelowMin(allocation, name))

(***************************************************************************)
(* Direct calls of buy and of the scoring functions: the arguments are     *)
(* drawn in InitBuy, Buy applies buy and Score scores what it returned.    *)
(***************************************************************************)
Subsets ==
    Range(combinations(SortedNames, 1) \o combinations(SortedNames, 2)
          \o combinations(SortedNames, 3))

ScenarioAllocation ==
    [k \in Names |-> CASE k = "world" -> 770 [] k = "em imi" -> 100
                       [] k = "world sc" -> 130]

\* everything held in world, one unit short of a round total
WorldOnlyAllocation == [k \in Names |-> IF k = "world" THEN 99 ELSE 0]

HeldAllocations ==
    UNION {[D -> 0..MaxHeld] : D \in SUBSET Names}
        \cup {ScenarioAllocation, WorldOnlyAllocation}

Amounts == 1..MaxValue \cup {1000}

NoArgs == [rounds |-> 0, invest |-> 0, min |-> 0, max |-> 0]

InitBuy ==
    /\ TARGET \in Policies
    /\ values \in HeldAllocations
    /\ etfs \in Subsets
    /\ value \in Amounts
    /\ new_values = <<>>
    /\ score = [validity_score |-> 0, is_valid |-> TRUE]
    /\ pc = "call"
    /\ script = "none" /\ args = NoArgs /\ i = 0 /\ rows = <<>> /\ out = <<>>
    /\ choices = <<>> /\ choice_buy = "" /\ choice = <<>>

Buy ==
    /\ pc = "call"
    /\ \E ulp \in Ulps(values, etfs, value) :
           new_values' = buy(values, etfs, value, ulp)
    /\ pc' = "bought"
    /\ UNCHANGED <<TARGET, script, args, values, i, rows, out, choices,
                   choice_buy, choice, etfs, value, score>>

Score ==
    /\ pc = "bought"
    /\ score' = [validity_score |-> validity_score(new_values),
                 is_valid |-> is_valid(new_values)]
    /\ pc' = "scored"
    /\ UNCHANGED <<TARGET, script, args, values, i, rows, out, choices,
                   choice_buy, choice, etfs, value, new_values>>

NextBuy == Buy \/ Score

SpecBuy == InitBuy /\ [][NextBuy]_vars

TypeBuy ==
    /\ pc \in {"call", "bought", "scored"}
    /\ pc # "call" => DOMAIN new_values = DOMAIN values \cup Range(etfs)

(***************************************************************************)
(* calculate_distance: the square of the distance as the fraction          *)
(* num / den.  With g = gcd(100, total) every difference                   *)
(* TARGET[k].tgt - allocation.get(k, 0) / total * 100 is                   *)
(* ((tgt * total - 100 * value) / g) / (total / g).                        *)
(***************************************************************************)
calculate_distance(allocation) ==
    LET total == Sum(allocation)
        g == GCD100(total)
        diff(k) == (TARGET[k].tgt * total - 100 * Get(allocation, k)) \div g
    IN [num |-> SumOver([k \in Names |-> diff(k) * diff(k)], Names),
        den |-> (total \div g) * (total \div g)]

\* d1 < d2 for two distances
DistLess(d1, d2) ==
    IF d1.den = d2.den THEN d1.num < d2.num
    ELSE d1.num * d2.den < d2.num * d1.den

(***************************************************************************)
(* main.  A candidate is the pair (", ".join(etfs), buy(values, etfs,      *)
(* invest)) of the source; the record keeps etfs next to the joined string *)
(* because the names hold no comma, so that choice[0].count(",") is        *)
(* Len(etfs) - 1.                                                          *)
(***************************************************************************)
RECURSIVE SizesFrom(_, _)
SizesFrom(lo, hi) ==
    IF lo > hi THEN <<>>
    ELSE combinations(SortedNames, lo) \o SizesFrom(lo + 1, hi)

\* the subsets one round tries, in the order the choices list holds them
Combos == SizesFrom(args.min, args.max)

\* the (candidate, etf) pairs of the subsets cs whose float product can
\* fall short.  The etf that takes the remainder is left out: what int()
\* cuts from its val comes back to it with free, so buy returns the same
\* allocation either way.
SlackPairs(cs) ==
    {p \in (1..Len(cs)) \X Names :
        /\ p[2] # MaxByTgt(cs[p[1]])
        /\ UlpOK(values, cs[p[1]], args.invest,
                 [k \in Names |-> IF k = p[2] THEN 1 ELSE 0])}

\* the choices list over the subsets cs when the products of the pairs in
\* U fall short
Choices(cs, U) ==
    [j \in 1..Len(cs) |->
        [buy |-> Join(cs[j]), etfs |-> cs[j],
         alloc |-> buy(values, cs[j], args.invest,
                       [k \in Names |-> IF <<j, k>> \in U THEN 1 ELSE 0])]]

\* every choices list the round can build
ChoiceLists ==
    UNION {{Choices(cs, U) : U \in SUBSET SlackPairs(cs)} : cs \in {Combos}}

\* the key of bin/advisor.py without its cluster component
Key_noClusters(c) ==
    IF script = "bin/advisor"
    THEN <<validity_score(c.alloc), 0, Len(c.etfs) - 1, calculate_distance(c.alloc)>>
    ELSE <<IntOf(~is_valid(c.alloc)), 0, 0, calculate_distance(c.alloc)>>

\* the key of min(): four components for bin/advisor.py, two for advisor.py
Key(c) ==
    IF script = "bin/advisor"
    THEN <<validity_score(c.alloc), IntOf(c.buy \notin CLUSTERS), Len(c.etfs) - 1,
           calculate_distance(c.alloc)>>
    ELSE <<IntOf(~is_valid(c.alloc)), 0, 0, calculate_distance(c.alloc)>>

\* tuple comparison k1 < k2
KeyLess(k1, k2) ==
    \/ k1[1] < k2[1]
    \/ k1[1] = k2[1] /\ k1[2] < k2[2]
    \/ k1[1] = k2[1] /\ k1[2] = k2[2] /\ k1[3] < k2[3]
    \/ k1[1] = k2[1] /\ k1[2] = k2[2] /\ k1[3] = k2[3] /\ DistLess(k1[4], k2[4])

\* the keys of the candidates, in the order of the list
RECURSIVE KeysOf(_)
KeysOf(chs) ==
    IF Len(chs) = 0 THEN <<>>
    ELSE <<Key(Head(chs))>> \o KeysOf(Tail(chs))

\* min(choices, key=...) returns the first candidate of the least key.  Two
\* keys that are equal as exact numbers can differ in the last bit of the
\* float distance, so every candidate of the least key can be the one
\* returned, unless an earlier one has the same allocation and hence the
\* same float key.
Selectable(chs) ==
    UNION {{j \in 1..Len(chs) :
               /\ \A m \in 1..Len(chs) : ~KeyLess(keys[m], keys[j])
               /\ \A m \in 1..(j - 1) :
                      ~(chs[m].alloc = chs[j].alloc /\ ~KeyLess(keys[j], keys[m]))} :
           keys \in {KeysOf(chs)}}

\* the condition of the "no valid choices" message
NoValidChoice(allocation) ==
    IF script = "bin/advisor" THEN validity_score(allocation) # 0
    ELSE ~is_valid(allocation)

Warned(allocation) ==
    IF NoValidChoice(allocation)
    THEN Append(out, [msg |-> "ERROR: Cannot proceed, no valid choices", i |-> i])
    ELSE out

HeaderRow == [kind |-> "header", iteration |-> 0, buy |-> "buy", alloc |-> <<>>]

StartRow(allocation) ==
    [kind |-> "start", iteration |-> 0, buy |-> "-", alloc |-> allocation]

Row(n, bought, allocation) ==
    [kind |-> "round", iteration |-> n, buy |-> bought, alloc |-> allocation]

StartAllocations == {a \in [Names -> 0..MaxStart] : Sum(a) > 0}

(* bin/advisor.py: get_starting_point yields a value for each of the three
   names, and the start row divides by their sum; the arguments come from
   the command line, with 1 <= min <= max <= 3.  TARGET is the script's own
   table or TARGET_mid in its place over small holdings, the table of
   advisor.py for the holdings 770, 100, 130 with 1000 to invest, and the
   script's own table for 99 held in world alone. *)
InitBin ==
    /\ script = "bin/advisor"
    /\ \/ /\ TARGET \in {TARGET_bin, TARGET_mid}
          /\ values \in StartAllocations
          /\ args \in {a \in [rounds : 1..MaxRounds, invest : 0..MaxInvest,
                              min : 1..3, max : 1..3] : a.min <= a.max}
       \/ /\ TARGET = TARGET_advisor
          /\ values = ScenarioAllocation
          /\ args \in {a \in [rounds : 1..MaxRounds, invest : {1000},
                              min : 1..3, max : 1..3] : a.min <= a.max}
       \/ /\ TARGET = TARGET_bin
          /\ values = WorldOnlyAllocation
          /\ args \in {a \in [rounds : 1..MaxRounds, invest : 1..MaxInvest,
                              min : 1..3, max : 1..3] : a.min <= a.max}
    /\ rows = <<HeaderRow, StartRow(values)>>

(* advisor.py: invest = 1000, num_transactions = 1 and the empty starting
   allocation are fixed in main; rounds (100 there) is cut to MaxRounds.
   TARGET is the script's own table or TARGET_mid in its place. *)
InitAdvisor ==
    /\ script = "advisor"
    /\ TARGET \in {TARGET_advisor, TARGET_mid}
    /\ values = <<>>
    /\ args \in [rounds : 1..MaxRounds, invest : {1000}, min : {1}, max : {1}]
    /\ rows = <<HeaderRow>>

Init ==
    /\ InitBin \/ InitAdvisor
    /\ i = 0 /\ out = <<>> /\ pc = "loop"
    /\ choices = <<>> /\ choice_buy = "" /\ choice = <<>>
    /\ etfs = <<>> /\ value = 0 /\ new_values = <<>>
    /\ score = [validity_score |-> 0, is_valid |-> TRUE]

\* the loop gives up in a round that has no valid choice
Round_stopsWhenInvalid ==
    /\ pc = "loop" /\ i < args.rounds
    /\ \E chs \in ChoiceLists :
       /\ choices' = chs
       /\ \E j \in Selectable(chs) :
           /\ values # chs[j].alloc
           /\ choice_buy' = chs[j].buy
           /\ choice' = chs[j].alloc
           /\ out' = Warned(chs[j].alloc)
           /\ IF NoValidChoice(chs[j].alloc)
              THEN rows' = rows /\ values' = values /\ i' = i /\ pc' = "break"
              ELSE /\ rows' = Append(rows, Row(i + 1, chs[j].buy, chs[j].alloc))
                   /\ values' = chs[j].alloc /\ i' = i + 1 /\ pc' = "loop"
    /\ UNCHANGED <<TARGET, script, args, etfs, value, new_values, score>>

\* one iteration of the for loop that ends at values = choice
Round ==
    /\ pc = "loop" /\ i < args.rounds
    /\ \E chs \in ChoiceLists :
       /\ choices' = chs
       /\ \E j \in Selectable(chs) :
           /\ values # chs[j].alloc
           /\ choice_buy' = chs[j].buy
           /\ choice' = chs[j].alloc
           /\ out' = Warned(chs[j].alloc)
           /\ rows' = Append(rows, Row(i + 1, chs[j].buy, chs[j].alloc))
           /\ values' = chs[j].alloc
    /\ i' = i + 1
    /\ pc' = "loop"
    /\ UNCHANGED <<TARGET, script, args, etfs, value, new_values, score>>

\* the stall is reported but the round is carried out, without a break
Stall_noBreak ==
    /\ pc = "loop" /\ i < args.rounds
    /\ \E chs \in ChoiceLists :
       /\ choices' = chs
       /\ \E j \in Selectable(chs) :
           /\ values = chs[j].alloc
           /\ choice_buy' = chs[j].buy
           /\ choice' = chs[j].alloc
           /\ out' = Append(Warned(chs[j].alloc), [msg |-> "ERROR", i |-> i])
           /\ rows' = Append(rows, Row(i + 1, chs[j].buy, chs[j].alloc))
    /\ i' = i + 1
    /\ pc' = "loop"
    /\ UNCHANGED <<TARGET, script, args, values, etfs, value, new_values, score>>

\* one iteration of the for loop that ends at the break
Stall ==
    /\ pc = "loop" /\ i < args.rounds
    /\ \E chs \in ChoiceLists :
       /\ choices' = chs
       /\ \E j \in Selectable(chs) :
           /\ values = chs[j].alloc
           /\ choice_buy' = chs[j].buy
           /\ choice' = chs[j].alloc
           /\ out' = Append(Warned(chs[j].alloc), [msg |-> "ERROR", i |-> i])
    /\ pc' = "break"
    /\ UNCHANGED <<TARGET, script, args, values, i, rows, etfs, value,
                   new_values, score>>

\* print(tabulate(rows, headers="firstrow"))
Tabulate ==
    /\ \/ pc = "loop" /\ i = args.rounds
       \/ pc = "break"
    /\ out' = Append(out, [msg |-> "table", i |-> i, rows |-> rows])
    /\ pc' = "done"
    /\ UNCHANGED <<TARGET, script, args, values, i, rows, choices, choice_buy,
                   choice, etfs, value, new_values, score>>

Next == Round \/ Stall \/ Tabulate

Spec == Init /\ [][Next]_vars

(* The runs checked for termination: both scripts under their own policies,
   bin/advisor.py started with all it holds in world. *)
InitFair ==
    /\ Init
    /\ TARGET = (IF script = "advisor" THEN TARGET_advisor ELSE TARGET_bin)
    /\ script = "bin/advisor" =>
           /\ values \in {a \in StartAllocations : a["world"] = MaxStart /\ a["em imi"] = 0}
           /\ <<args.min, args.max>> \in {<<1, 1>>, <<2, 2>>, <<1, 3>>}

\* the script is one sequential thread: it takes its next step
FairSpec == InitFair /\ [][Next]_vars /\ WF_vars(Next)

TypeMain ==
    /\ pc \in {"loop", "break", "done"}
    /\ i \in 0..args.rounds
    /\ Sum(values) > 0 \/ (script = "advisor" /\ i = 0)

(***************************************************************************)
(* Properties of buy and of the scoring, checked under SpecBuy.            *)
(***************************************************************************)
MinSum == SumOver([k \in Names |-> TARGET[k].min], Names)
MaxSum == SumOver([k \in Names |-> TARGET[k].max], Names)

\* the configured bounds are jointly satisfiable
JointlySatisfiable == MinSum <= 100 /\ 100 <= MaxSum

\* the member of etfs the remainder is added to
Absorber == MaxByTgt(etfs)

\* C1: mass conservation: the values buy returns sum to the values it was
\* given plus the amount bought.
C1_MassConservation ==
    pc # "call" => Sum(new_values) = Sum(values) + value

\* buy was called with two or more etfs, left a remainder after the loop and
\* returned an allocation that differs from the one it was given
C1_Witness ==
    /\ pc = "bought" /\ Len(etfs) >= 2 /\ Sum(values) > 0
    /\ FreeLeft(values, etfs, value, NoUlp) # 0
    /\ new_values # values

\* C2 as stated: with jointly satisfiable bounds every member of etfs ends
\* within its [min, max] percentage of the new total.
C2_AsStated ==
    (pc # "call" /\ JointlySatisfiable) =>
        \A k \in Range(etfs) :
            /\ 100 * new_values[k] <= TARGET[k].max * Sum(new_values)
            /\ 100 * new_values[k] >= TARGET[k].min * Sum(new_values)

\* C2 amended: with jointly satisfiable bounds every member of etfs other
\* than the one that takes the remainder ends at or below its max percentage
\* of the new total and no more than one unit below its min percentage of
\* the new total.
C2_ClampedExceptAbsorber ==
    (pc # "call" /\ JointlySatisfiable) =>
        \A k \in Range(etfs) \ {Absorber} :
            /\ 100 * new_values[k] <= TARGET[k].max * Sum(new_values)
            /\ 100 * (new_values[k] + 1) >= TARGET[k].min * Sum(new_values)

\* a member of etfs that does not take the remainder was cut down to its max
C2_Witness ==
    /\ pc = "bought" /\ JointlySatisfiable
    /\ \E k \in Range(etfs) \ {Absorber} :
           /\ Raw(values, etfs, value, k) > Hi(values, etfs, value, k)
           /\ new_values[k] > 0

\* C3: an instrument outside etfs has the value it had, and one that was
\* absent stays absent.
C3_UntouchedUnchanged ==
    pc # "call" =>
        \A k \in Names \ Range(etfs) :
            IF k \in DOMAIN values
            THEN k \in DOMAIN new_values /\ new_values[k] = values[k]
            ELSE k \notin DOMAIN new_values

\* buy left a remainder while one instrument outside etfs was held and
\* another one was absent
C3_Witness ==
    /\ pc = "bought"
    /\ FreeLeft(values, etfs, value, NoUlp) # 0
    /\ \E k \in Names \ Range(etfs) : k \in DOMAIN values /\ values[k] > 0
    /\ \E k \in Names \ Range(etfs) : k \notin DOMAIN values

C6_ScoreZeroIffWithinBounds ==
    pc = "scored" =>
        /\ (score.validity_score = 0) <=>
               \A k \in DOMAIN new_values :
                   /\ 100 * new_values[k] <= TARGET[k].max * Sum(new_values)
                   /\ 100 * new_values[k] >= TARGET[k].min * Sum(new_values)
        /\ score.is_valid <=> (score.validity_score = 0)

\* an allocation scored 0 although it lacks an instrument whose min is above 0
C6_Witness ==
    /\ pc = "scored" /\ score.validity_score = 0 /\ Sum(new_values) > 0
    /\ \E k \in Names \ DOMAIN new_values : TARGET[k].min > 0

\* the call of the scenario: the policy of advisor.py, the empty allocation,
\* all three instruments and 1000 to invest
C9_Scenario ==
    /\ TARGET = TARGET_advisor /\ values = <<>>
    /\ etfs = SortedNames /\ value = 1000

\* C9: in the scenario buy returns world 770, em imi 100, world sc 130, each
\* up to the unit a truncation can move into the remainder, the total is
\* exactly 1000 and the validity score of the result is 0.
C9_BuyAllFromEmpty ==
    (C9_Scenario /\ pc = "scored") =>
        /\ DOMAIN new_values = Names
        /\ new_values["em imi"] \in 99..100
        /\ new_values["world sc"] \in 129..130
        /\ new_values["world"] + new_values["em imi"] + new_values["world sc"] = 1000
        /\ score.validity_score = 0

\* the scenario was run and scored, and one outcome is exactly the expected one
C9_Witness ==
    /\ C9_Scenario /\ pc = "scored"
    /\ new_values = ScenarioAllocation

(***************************************************************************)
(* Properties of main, checked under Spec and FairSpec.                    *)
(***************************************************************************)
\* a round has run: choices, choice_buy and choice are those of the last one
RoundRun == choices # <<>>

\* the candidate main selected in the last round
Selected ==
    CHOOSE c \in Range(choices) : c.buy = choice_buy /\ c.alloc = choice

\* the subsets a round has to try
Wanted == {c \in Subsets : args.min <= Len(c) /\ Len(c) <= args.max}

IsCluster(c) == c \in {<<"world">>, <<"em imi", "world sc">>}

\* candidate c ranks strictly before candidate d in the order of the claim
RanksBefore(c, d) ==
    LET vc == validity_score(c.alloc)
        vd == validity_score(d.alloc)
        nc == IntOf(~IsCluster(c.etfs))
        nd == IntOf(~IsCluster(d.etfs))
        dc == calculate_distance(c.alloc)
        dd == calculate_distance(d.alloc)
    IN \/ vc < vd
       \/ vc = vd /\ nc < nd
       \/ vc = vd /\ nc = nd /\ Len(c.etfs) < Len(d.etfs)
       \/ vc = vd /\ nc = nd /\ Len(c.etfs) = Len(d.etfs) /\ DistLess(dc, dd)

\* C4: in every round of bin/advisor.py the candidates cover every subset of
\* the configured sizes and no candidate ranks strictly before the selected
\* one in the order (validity score, not a cluster, size, distance).
C4_SelectedIsMinimal ==
    (script = "bin/advisor" /\ RoundRun) =>
        /\ {c.etfs : c \in Range(choices)} = Wanted
        /\ \E c \in Range(choices) : c.buy = choice_buy /\ c.alloc = choice
        /\ \A c \in Range(choices) : ~RanksBefore(c, Selected)

\* a cluster was selected although a candidate of the same validity score
\* that is no cluster has a strictly smaller distance
C4_Witness ==
    /\ script = "bin/advisor" /\ RoundRun
    /\ IsCluster(Selected.etfs)
    /\ \E c \in Range(choices) :
           /\ ~IsCluster(c.etfs)
           /\ validity_score(c.alloc) = validity_score(choice)
           /\ DistLess(calculate_distance(c.alloc), calculate_distance(choice))

\* C7: a round whose selected allocation equals the allocation it started
\* from ends the loop at once: no row is appended, the counter and the
\* allocation stay, and the only step left prints the rows as they are.
C7_StallStops ==
    [][/\ (pc = "loop" /\ pc' # "done" /\ choice' = values) =>
              /\ pc' = "break"
              /\ rows' = rows /\ i' = i /\ values' = values
       /\ pc = "break" =>
              /\ pc' = "done"
              /\ rows' = rows
              /\ out'[Len(out')].msg = "table" /\ out'[Len(out')].rows = rows]_vars

\* the table was printed after a stall that followed a completed round
C7_Witness ==
    /\ pc = "done" /\ i >= 1 /\ i < args.rounds
    /\ Len(out) >= 2 /\ out[Len(out) - 1].msg = "ERROR"
    /\ rows[Len(rows)].kind = "round" /\ rows[Len(rows)].iteration = i
    /\ choice = values

RoundRows == SelectSeq(rows, LAMBDA r : r.kind = "round")

\* every round ran: there are rounds round rows, numbered 1..rounds
Completed ==
    /\ i = args.rounds
    /\ Len(RoundRows) = args.rounds
    /\ \A n \in 1..Len(RoundRows) : RoundRows[n].iteration = n
    /\ \A n \in 1..Len(out) : out[n].msg # "ERROR"

\* the loop was left at the break
Stalled ==
    /\ i < args.rounds
    /\ Len(out) >= 2 /\ out[Len(out) - 1].msg = "ERROR"

\* C8: main always reaches its end, and it does so either with every round
\* completed and rows numbered 1..rounds or after a stall, never both; a
\* round whose selected candidate has a nonzero validity score and changes
\* the allocation is appended to the rows and becomes the next input.
C8_Terminates ==
    /\ <>(pc = "done")
    /\ [](pc = "done" => (Completed /\ ~Stalled) \/ (Stalled /\ ~Completed))
    /\ [][(pc = "loop" /\ pc' # "done" /\ NoValidChoice(choice')
           /\ choice' # values) =>
              /\ pc' = "loop"
              /\ i' = i + 1
              /\ rows' = Append(rows, Row(i + 1, choice_buy', choice'))
              /\ values' = choice']_vars

\* main ended with every round completed although a round had no valid choice
C8_Witness ==
    /\ pc = "done" /\ Completed /\ args.rounds >= 2
    /\ \E n \in 1..Len(out) : out[n].msg = "ERROR: Cannot proceed, no valid choices"

\* bin/advisor.py with the policy of advisor.py, started from world 770,
\* em imi 100, world sc 130 with 1000 to invest in exactly one instrument,
\* after its first round
C10_Scenario ==
    /\ script = "bin/advisor" /\ TARGET = TARGET_advisor
    /\ args.invest = 1000 /\ args.min = 1 /\ args.max = 1
    /\ rows[2].alloc = ScenarioAllocation
    /\ i = 1 /\ pc = "loop"

\* C10: in the scenario the round selects a single instrument whose result
\* has validity score 0 and no greater distance than any other candidate of
\* validity score 0, and the two other instruments keep their values.
C10_SingleBuy ==
    C10_Scenario =>
        /\ choice_buy \in Names
        /\ validity_score(choice) = 0
        /\ \A c \in Range(choices) :
               validity_score(c.alloc) = 0 =>
                   ~DistLess(calculate_distance(c.alloc), calculate_distance(choice))
        /\ \A k \in Names \ {choice_buy} : choice[k] = ScenarioAllocation[k]
        /\ values = choice

\* the round of the scenario has run and bought world
C10_Witness ==
    /\ C10_Scenario
    /\ choice_buy = "world"
    /\ choice = [ScenarioAllocation EXCEPT !["world"] = 1770]

\* C11: with an amount to invest above 0 the stall branch is never taken: in
\* every round no candidate, and so not the selected one, equals the
\* allocation the round started from, and the loop goes on.
C11_StallUnreachable ==
    [][(pc = "loop" /\ pc' # "done" /\ args.invest > 0) =>
           /\ pc' = "loop"
           /\ choice' # values
           /\ \A n \in 1..Len(choices') : choices'[n].alloc # values]_vars

\* two or more rounds ran with an amount above 0 and main ended with all of
\* them completed
C11_Witness ==
    /\ pc = "done" /\ args.invest > 0 /\ args.invest <= MaxInvest
    /\ args.rounds >= 2 /\ Completed

\* the place of a name in the lexicographic order of the names
NameRank(k) == CHOOSE n \in 1..Len(SortedNames) : SortedNames[n] = k

\* the members of etfs of the highest tgt
TopMembers == {k \in Range(etfs) : \A m \in Range(etfs) : TARGET[m].tgt <= TARGET[k].tgt}

\* the lexicographically smallest of them
SmallestTopMember ==
    CHOOSE k \in TopMembers : \A m \in TopMembers : NameRank(k) <= NameRank(m)

\* C12: after buy every member of etfs but one holds its clamped, truncated
\* value; that one, the lexicographically smallest member of the highest tgt,
\* holds all the rest of the free amount; the instruments outside etfs hold
\* what they held.
C12_RemainderToSmallestTop ==
    pc # "call" =>
        LET others == Range(etfs) \ {SmallestTopMember}
        IN /\ \E ulp \in Ulps(values, etfs, value) :
                  \A k \in others : new_values[k] = Val(values, etfs, value, ulp, k)
           /\ new_values[SmallestTopMember]
                  = Free(values, etfs, value) - SumOver(new_values, others)
           /\ \A k \in DOMAIN new_values \ Range(etfs) : new_values[k] = values[k]

\* buy left a remainder while two members of etfs shared the highest tgt
C12_Witness ==
    /\ pc = "bought" /\ Cardinality(TopMembers) >= 2
    /\ FreeLeft(values, etfs, value, NoUlp) # 0
    /\ new_values = buy(values, etfs, value, NoUlp)

\* C13: buy keeps an allocation non-negative, also along the rounds of main:
\* started from values that are all 0 or more with an amount above 0, main
\* holds values that are all 0 or more after every round.
C13_NonNegative ==
    (script # "none" /\ args.invest > 0) =>
        \A k \in DOMAIN values : values[k] >= 0

====
